---- MODULE Spec2Model ----
(***************************************************************************)
(* Voice-cloning text-to-speech web form (src/app.py) and its companion    *)
(* model downloader (src/download_model.py).                               *)
(*                                                                         *)
(* Spec    : browser sessions running main() of app.py, step by step, one  *)
(*           run at a time, sharing the process-wide model cache, the      *)
(*           clock and the temporary file output.wav.  run is the record   *)
(*           of the current (or, between runs, the last) run, of session   *)
(*           cur.                                                          *)
(* SpecGen : optimized_generation applied to arbitrary texts.              *)
(* SpecDL  : runs of the download_model.py script.                         *)
(*                                                                         *)
(* Units.  Sizes of uploads are in bytes.  The RSS reading is in KiB (the  *)
(* reading of psutil is a whole number of memory pages, so a whole number  *)
(* of KiB); the thresholds of memory_guard are compared in integer         *)
(* arithmetic that is exact for such readings.  Audio is counted in        *)
(* samples at TARGET_SAMPLE_RATE.                                          *)
(*                                                                         *)
(* A text is a window [seed, off, len] of a character stream: the len      *)
(* characters seed[off], ..., seed[off+len-1].  Python slicing maps        *)
(* windows to windows.                                                     *)
(***************************************************************************)
EXTENDS Integers, Sequences, FiniteSets, TLC

VARIABLES now, cache, bodyLog, session_state, cur, pc, run, loadReq, loadRet, synthModels,
          runsStarted, outputWav,
          genPc, genText, genAudio, genCall,
          dlPc, dlDisk, dlLog, dlRet, dlExit, dlRuns

appVars == <<now, cache, bodyLog, session_state, cur, pc, run, loadReq, loadRet, synthModels,
             runsStarted, outputWav>>
genVars == <<genPc, genText, genAudio, genCall>>
dlVars == <<dlPc, dlDisk, dlLog, dlRet, dlExit, dlRuns>>
vars == <<appVars, genVars, dlVars>>

----------------------------------------------------------------------------
(* Configuration, app.py lines 14-20 *)

TARGET_SAMPLE_RATE == 22050
MAX_FILE_SIZE_MB == 50
MAX_TEXT_LENGTH == 3000
MEMORY_LIMIT_MB == 8192
MAX_AUDIO_DURATION == 60
MODEL_TTL == 1800

(* Bounds of the model *)
MaxRuns == 2
MaxTime == 1800
ClockStep == 900
MaxScriptRuns == 3
MaxOver == 3

Sessions == {"s1", "s2"}

None == [none |-> TRUE]

\* the model object made by the n-th run of the body of load_model
ModelObject(n) == [id |-> n]

Min(a, b) == IF a < b THEN a ELSE b

----------------------------------------------------------------------------
(* Texts *)

Txt(seed, off, len) == [seed |-> seed, off |-> off, len |-> len]

(* text[:n] for n >= 0 *)
SlicePrefix(text, n) == [text EXCEPT !.len = Min(text.len, n)]

\* what the text area can hold: at most max_chars = MAX_TEXT_LENGTH characters
TextInputs == {Txt("t", 0, n) : n \in {0, 1, MAX_TEXT_LENGTH}}

----------------------------------------------------------------------------
(* memory_guard *)

KiBPerMB == 1024

\* process RSS readings, in KiB, around the two thresholds
RssReadings ==
    { 512 * KiBPerMB,
      6144 * KiBPerMB, 6144 * KiBPerMB + 1,
      7549747, 7549748,
      MEMORY_LIMIT_MB * KiBPerMB }

\* variant: thresholds compared with >=
memory_guard_mutant_ge(rss) ==
    IF rss * 100 >= MEMORY_LIMIT_MB * KiBPerMB * 90 THEN "stop"
    ELSE IF rss * 100 >= MEMORY_LIMIT_MB * KiBPerMB * 75 THEN "warning"
    ELSE "quiet"

\* mem_usage = rss / 1024**2 (MB);  mem_usage > MEMORY_LIMIT_MB * 0.90, * 0.75
memory_guard(rss) ==
    IF rss * 100 > MEMORY_LIMIT_MB * KiBPerMB * 90 THEN "stop"
    ELSE IF rss * 100 > MEMORY_LIMIT_MB * KiBPerMB * 75 THEN "warning"
    ELSE "quiet"

----------------------------------------------------------------------------
(* process_audio *)

BytesPerMB == 1024 * 1024

\* An upload: its size in bytes, whether the audio libraries can decode it,
\* and the decoded signal at TARGET_SAMPLE_RATE mono as leading silence,
\* voiced samples, trailing silence.
Upload(size, ok, lead, voiced, trail) ==
    [size |-> size, ok |-> ok, lead |-> lead, voiced |-> voiced, trail |-> trail]

UploadedFiles ==
    { Upload(MAX_FILE_SIZE_MB * BytesPerMB, TRUE, 0,
             MAX_AUDIO_DURATION * TARGET_SAMPLE_RATE, 0),
      Upload(40 * BytesPerMB, TRUE, 2000, 90 * TARGET_SAMPLE_RATE, 3000),
      Upload(MAX_FILE_SIZE_MB * BytesPerMB + 1, TRUE, 0, 10 * TARGET_SAMPLE_RATE, 0),
      Upload(1000, FALSE, 0, 0, 0),
      Upload(300000, TRUE, 3 * TARGET_SAMPLE_RATE, 0, 0) }

\* file_size = len(bytes) / (1024 * 1024);  file_size > MAX_FILE_SIZE_MB
FileTooLarge(f) == f.size > MAX_FILE_SIZE_MB * BytesPerMB

\* librosa.load(sr=TARGET_SAMPLE_RATE, mono=True, duration=d): the first d
\* seconds of the signal
librosa_load(f, duration) ==
    LET cap == duration * TARGET_SAMPLE_RATE
        lead == Min(f.lead, cap)
        voiced == Min(f.voiced, cap - lead)
        trail == Min(f.trail, cap - lead - voiced)
    IN  [lead |-> lead, voiced |-> voiced, trail |-> trail]

SignalLen(y) == y.lead + y.voiced + y.trail

\* the duration of the whole file, for a load with no duration limit
WholeFile(f) == (f.lead + f.voiced + f.trail) \div TARGET_SAMPLE_RATE + 1

\* librosa.effects.trim(y, top_db=20)[0]: the signal without its leading and
\* trailing silence
librosa_trim(y) == [lead |-> 0, voiced |-> y.voiced, trail |-> 0]

WavHeaderBytes == 44

\* sf.write(..., format='WAV', subtype='PCM_16') of the int16 samples
WavBytes(y) ==
    [samples |-> SignalLen(y), rate |-> TARGET_SAMPLE_RATE,
     nbytes |-> WavHeaderBytes + 2 * SignalLen(y)]

AudioResult(ret, decoded, error) == [ret |-> ret, decoded |-> decoded, error |-> error]

\* variant: the whole file is decoded, with no duration limit
process_audio_mutant_noduration(f) ==
    IF f = None THEN AudioResult(None, FALSE, "AttributeError")
    ELSE IF FileTooLarge(f) THEN AudioResult(None, FALSE, "ValueError")
    ELSE IF ~f.ok THEN AudioResult(None, TRUE, "DecodeError")
    ELSE AudioResult(WavBytes(librosa_trim(librosa_load(f, WholeFile(f)))), TRUE, "none")

\* variant: the size limit compared with >=
process_audio_mutant_ge(f) ==
    IF f = None THEN AudioResult(None, FALSE, "AttributeError")
    ELSE IF f.size >= MAX_FILE_SIZE_MB * BytesPerMB
         THEN AudioResult(None, FALSE, "ValueError")
    ELSE IF ~f.ok THEN AudioResult(None, TRUE, "DecodeError")
    ELSE AudioResult(WavBytes(librosa_trim(librosa_load(f, MAX_AUDIO_DURATION))),
                     TRUE, "none")

\* ret: the bytes returned, or None after an 'Audio Processing Error';
\* decoded: whether librosa.load was called; error: the exception caught
process_audio(f) ==
    IF f = None THEN AudioResult(None, FALSE, "AttributeError")
    ELSE IF FileTooLarge(f) THEN AudioResult(None, FALSE, "ValueError")
    ELSE IF ~f.ok THEN AudioResult(None, TRUE, "DecodeError")
    ELSE AudioResult(WavBytes(librosa_trim(librosa_load(f, MAX_AUDIO_DURATION))),
                     TRUE, "none")

\* variant: the result of process_audio is not tested
audio_accepted_mutant_always(bytes) == TRUE

\* line 151: "if not audio_data" is false
audio_accepted(bytes) == bytes # None /\ bytes.nbytes > 0

----------------------------------------------------------------------------
(* optimized_generation *)

\* variant: the text is passed whole
generation_text_mutant_whole(text) == text

\* text[:MAX_TEXT_LENGTH]
generation_text(text) == SlicePrefix(text, MAX_TEXT_LENGTH)

\* the tts_to_file call made on st.session_state.tts
optimized_generation(tts, text, audio_data) ==
    [model |-> tts, text |-> generation_text(text), speaker_wav |-> audio_data,
     language |-> "en"]

\* the bytes the model wrote for a call
OutputOf(call) == [synth |-> call]

----------------------------------------------------------------------------
(* load_model under st.cache_resource(max_entries=1, ttl=MODEL_TTL) *)

NoEntry == [model |-> None, at |-> 0]

\* the single cache entry is present and younger than the TTL
cache_hit(c, t) == c.model # None /\ t < c.at + MODEL_TTL

\* variant: the model is requested in every run
tts_missing_mutant_always(ss) == TRUE

\* 'tts' not in st.session_state
tts_missing(ss) == ss.tts = None

----------------------------------------------------------------------------
(* memory_cleanup *)

\* variant: the failure of os.remove is not caught
memory_cleanup_mutant_raises(exists, removeFails) ==
    [raised |-> exists /\ removeFails, exists |-> exists /\ removeFails]

\* os.remove("output.wav") inside try/except: the file stays when the removal
\* fails, and nothing is raised
memory_cleanup(exists, removeFails) ==
    [raised |-> FALSE, exists |-> exists /\ removeFails]

----------------------------------------------------------------------------
(* main(): one run of the script per step sequence of a session *)

NewRun ==
    [voice_file |-> None, text_input |-> Txt("t", 0, 0), button |-> FALSE,
     events |-> <<>>, guard |-> None,
     audio |-> None, audio_data |-> None, call |-> None, output_data |-> None,
     played |-> None, download |-> None, ended |-> "running"]

Log(e) == Append(run.events, e)

\* lines 107-111: titles, then the initial memory check
PageStart(s) ==
    /\ pc = "idle"
    /\ runsStarted < MaxRuns
    /\ cur' = s
    /\ runsStarted' = runsStarted + 1
    /\ \E rss \in RssReadings :
         LET level == memory_guard(rss)
             r == [NewRun EXCEPT !.events = <<"guard_" \o level>>,
                                 !.guard = [rss |-> rss, level |-> level]]
         IN  IF level = "stop"
             THEN /\ run' = [r EXCEPT !.ended = "stopped"]
                  /\ pc' = "idle"
             ELSE /\ run' = r
                  /\ pc' = "widgets"
    /\ UNCHANGED <<now, cache, bodyLog, session_state, loadReq, loadRet, synthModels, outputWav>>
    /\ UNCHANGED <<genVars, dlVars>>

\* the condition of line 138
generate_pressed(button, voice_file, text_input) ==
    button /\ voice_file # None /\ text_input.len > 0

\* lines 113-138: the widgets deliver the inputs of this run
Widgets(s) ==
    /\ cur = s /\ pc = "widgets"
    /\ \E f \in UploadedFiles \cup {None}, t \in TextInputs, b \in BOOLEAN :
         /\ run' = [run EXCEPT !.voice_file = f, !.text_input = t,
                               !.button = b]
         /\ pc' = IF generate_pressed(b, f, t) THEN "guard" ELSE "monitor"
    /\ UNCHANGED <<now, cache, bodyLog, session_state, loadReq, loadRet, synthModels,
                   runsStarted, outputWav>>
    /\ UNCHANGED <<cur, genVars, dlVars>>

\* lines 140-142: the memory check at the start of generation
GenerationGuard(s) ==
    /\ cur = s /\ pc = "guard"
    /\ \E rss \in RssReadings :
         LET level == memory_guard(rss)
             r == [run EXCEPT !.events = Log("guard_" \o level),
                                 !.guard = [rss |-> rss, level |-> level]]
         IN  IF level = "stop"
             THEN /\ run' = [r EXCEPT !.ended = "stopped"]
                  /\ pc' = "idle"
             ELSE /\ run' = r
                  /\ pc' = "load"
    /\ UNCHANGED <<now, cache, bodyLog, session_state, loadReq, loadRet, synthModels,
                   runsStarted, outputWav>>
    /\ UNCHANGED <<cur, genVars, dlVars>>

\* lines 144-147 with lines 22-26: the lazy load of the model
LazyLoad(s) ==
    /\ cur = s /\ pc = "load"
    /\ IF tts_missing(session_state[s])
       THEN /\ loadReq' = [loadReq EXCEPT ![s] = @ + 1]
            /\ IF cache_hit(cache, now)
               THEN /\ session_state' = [session_state EXCEPT ![s].tts = cache.model]
                    /\ loadRet' = [loadRet EXCEPT ![s] = @ + 1]
                    /\ run' = [run EXCEPT !.events = Log("load_ok")]
                    /\ pc' = "audio"
                    /\ UNCHANGED <<cache, bodyLog>>
               ELSE \E raises \in BOOLEAN :
                    /\ bodyLog' = Append(bodyLog,
                          [at |-> now, entry |-> cache, ok |-> ~raises])
                    /\ IF raises
                       THEN /\ run' = [run EXCEPT !.events = Log("load_raise")]
                            /\ pc' = "except"
                            /\ UNCHANGED <<cache, session_state, loadRet>>
                       ELSE /\ loadRet' = [loadRet EXCEPT ![s] = @ + 1]
                            /\ cache' = [model |-> ModelObject(Len(bodyLog) + 1), at |-> now]
                            /\ session_state' =
                                 [session_state EXCEPT ![s].tts = ModelObject(Len(bodyLog) + 1)]
                            /\ run' = [run EXCEPT !.events = Log("load_ok")]
                            /\ pc' = "audio"
       ELSE /\ pc' = "audio"
            /\ UNCHANGED <<cache, bodyLog, session_state, run, loadReq, loadRet>>
    /\ UNCHANGED <<now, synthModels, runsStarted, outputWav>>
    /\ UNCHANGED <<cur, genVars, dlVars>>

\* lines 149-152: preprocess the upload; the run returns when it failed
ProcessAudio(s) ==
    /\ cur = s /\ pc = "audio"
    /\ LET a == process_audio(run.voice_file)
           r == [run EXCEPT
                   !.events = Log(IF a.error = "none" THEN "audio_ok" ELSE "audio_error"),
                   !.audio = a, !.audio_data = a.ret]
       IN  IF ~audio_accepted(a.ret)
           THEN /\ run' = [r EXCEPT !.ended = "returned"]
                /\ pc' = "idle"
           ELSE /\ run' = r
                /\ pc' = "generate"
    /\ UNCHANGED <<now, cache, bodyLog, session_state, loadReq, loadRet, synthModels,
                   runsStarted, outputWav>>
    /\ UNCHANGED <<cur, genVars, dlVars>>

\* line 155 with lines 73-82: the synthesis call, which may raise
Generate(s) ==
    /\ cur = s /\ pc = "generate"
    /\ LET call == optimized_generation(session_state[s].tts, run.text_input,
                                        run.audio_data)
       IN  /\ synthModels' = [synthModels EXCEPT ![s] = @ \cup {call.model}]
           /\ \E raises \in BOOLEAN :
                IF raises
                THEN /\ run' = [run EXCEPT !.events = Log("synth_raise"),
                                           !.call = call]
                     /\ pc' = "except"
                ELSE /\ run' = [run EXCEPT !.events = Log("synth_ok"),
                                           !.call = call,
                                           !.output_data = OutputOf(call)]
                     /\ pc' = "show"
    /\ UNCHANGED <<now, cache, bodyLog, session_state, loadReq, loadRet, runsStarted, outputWav>>
    /\ UNCHANGED <<cur, genVars, dlVars>>

\* lines 157-168: playback and download of the result
ShowResult(s) ==
    /\ cur = s /\ pc = "show"
    /\ run' = [run EXCEPT !.events = Log("st_audio") \o <<"download_button">>,
                          !.played = run.output_data,
                          !.download = run.output_data]
    /\ pc' = "cleanup"
    /\ UNCHANGED <<now, cache, bodyLog, session_state, loadReq, loadRet, synthModels,
                   runsStarted, outputWav>>
    /\ UNCHANGED <<cur, genVars, dlVars>>

\* lines 170-171: cleanup after a success, still inside the try
CleanupAfterSuccess(s) ==
    /\ cur = s /\ pc = "cleanup"
    /\ \E removeFails \in BOOLEAN :
         LET c == memory_cleanup(outputWav, removeFails)
         IN  /\ outputWav' = c.exists
             /\ IF c.raised
                THEN /\ run' = [run EXCEPT !.events = Log("cleanup_raise")]
                     /\ pc' = "except"
                ELSE /\ run' = [run EXCEPT !.events = Log("cleanup")]
                     /\ pc' = "monitor"
    /\ UNCHANGED <<now, cache, bodyLog, session_state, loadReq, loadRet, synthModels, runsStarted>>
    /\ UNCHANGED <<cur, genVars, dlVars>>

\* lines 173-175: the handler of an exception raised in the try
GenerationError(s) ==
    /\ cur = s /\ pc = "except"
    /\ \E removeFails \in BOOLEAN :
         LET c == memory_cleanup(outputWav, removeFails)
         IN  /\ outputWav' = c.exists
             /\ IF c.raised
                THEN /\ run' = [run EXCEPT
                          !.events = Log("generation_error") \o <<"cleanup_raise">>,
                          !.ended = "raised"]
                     /\ pc' = "idle"
                ELSE /\ run' = [run EXCEPT
                          !.events = Log("generation_error") \o <<"cleanup">>]
                     /\ pc' = "monitor"
    /\ UNCHANGED <<now, cache, bodyLog, session_state, loadReq, loadRet, synthModels, runsStarted>>
    /\ UNCHANGED <<cur, genVars, dlVars>>

\* lines 177-193: the sidebar resource monitor, and the run ends
ResourceMonitor(s) ==
    /\ cur = s /\ pc = "monitor"
    /\ run' = [run EXCEPT !.events = Log("monitor"), !.ended = "completed"]
    /\ pc' = "idle"
    /\ UNCHANGED <<now, cache, bodyLog, session_state, loadReq, loadRet, synthModels,
                   runsStarted, outputWav>>
    /\ UNCHANGED <<cur, genVars, dlVars>>

\* time passes
Tick ==
    /\ now < MaxTime
    /\ now' = now + ClockStep
    /\ UNCHANGED <<cache, bodyLog, session_state, cur, pc, run, loadReq, loadRet, synthModels,
                   runsStarted, outputWav>>
    /\ UNCHANGED <<genVars, dlVars>>

GenIdle == genPc = "unused" /\ genText = None /\ genAudio = None /\ genCall = None

DlIdle ==
    /\ dlPc = "unused" /\ dlDisk = [dir |-> FALSE, file |-> FALSE] /\ dlLog = <<>>
    /\ dlRet = "unset" /\ dlExit = "unset" /\ dlRuns = 0

AppIdle ==
    /\ now = 0
    /\ cache = NoEntry
    /\ bodyLog = <<>>
    /\ session_state = [s \in Sessions |-> [tts |-> None]]
    /\ cur = "s1"
    /\ pc = "idle"
    /\ run = NewRun
    /\ loadReq = [s \in Sessions |-> 0]
    /\ loadRet = [s \in Sessions |-> 0]
    /\ synthModels = [s \in Sessions |-> {}]
    /\ runsStarted = 0

Has(log, e) == \E i \in DOMAIN log : log[i] = e

Count(log, e) == Cardinality({i \in DOMAIN log : log[i] = e})

----------------------------------------------------------------------------
(* optimized_generation on arbitrary texts *)

GenLengths ==
    {0, 1, MAX_TEXT_LENGTH - 1, MAX_TEXT_LENGTH, 2 * MAX_TEXT_LENGTH}
        \cup {MAX_TEXT_LENGTH + k : k \in 1..MaxOver}

GenTexts == {Txt(seed, off, n) : seed \in {"a", "b"}, off \in {0, 7}, n \in GenLengths}

GenAudios ==
    {process_audio(f).ret : f \in {g \in UploadedFiles : audio_accepted(process_audio(g).ret)}}

\* a session that holds a loaded model is about to call optimized_generation
InitGen ==
    /\ AppIdle /\ outputWav = FALSE /\ DlIdle
    /\ genPc = "ready"
    /\ genText \in GenTexts
    /\ genAudio \in GenAudios
    /\ genCall = None

\* lines 73-82 on the inputs drawn
GenCall ==
    /\ genPc = "ready"
    /\ genCall' = optimized_generation(ModelObject(1), genText, genAudio)
    /\ genPc' = "called"
    /\ UNCHANGED <<genText, genAudio, appVars, dlVars>>

NextGen == GenCall

SpecGen == InitGen /\ [][NextGen]_vars

----------------------------------------------------------------------------
(* download_model.py *)

\* variant: the path is not verified
download_verified_mutant_unchecked(pathExists) == TRUE

\* line 39: the downloaded model path must exist
download_verified(pathExists) == pathExists

\* lines 62-67: the exit status of the script
exit_status(ret) == IF ret = "True" THEN "0" ELSE "1"

InitDL ==
    /\ AppIdle /\ outputWav = FALSE /\ GenIdle
    /\ dlPc = "idle"
    /\ dlDisk \in {d \in [dir : BOOLEAN, file : BOOLEAN] : d.file => d.dir}
    /\ dlLog = <<>>
    /\ dlRet = "unset"
    /\ dlExit = "unset"
    /\ dlRuns = 0

\* lines 58-60 and 18-20: the script starts and download_model is entered
DlStart ==
    /\ dlPc = "idle"
    /\ dlRuns < MaxScriptRuns
    /\ dlRuns' = dlRuns + 1
    /\ dlLog' = <<"start">>
    /\ dlRet' = "unset"
    /\ dlExit' = "unset"
    /\ dlPc' = "manager"
    /\ UNCHANGED <<dlDisk, appVars, genVars>>

\* lines 23-26: ModelManager() is built, or raises
DlManager ==
    /\ dlPc = "manager"
    /\ \E raises \in BOOLEAN :
         IF raises
         THEN dlLog' = Append(dlLog, "manager_raise") /\ dlPc' = "except"
         ELSE dlLog' = Append(dlLog, "manager") /\ dlPc' = "exists"
    /\ UNCHANGED <<dlDisk, dlRet, dlExit, dlRuns, appVars, genVars>>

\* lines 28-31: manager.model_exists, which may raise
DlModelExists ==
    /\ dlPc = "exists"
    /\ \E raises \in BOOLEAN :
         IF raises
         THEN /\ dlLog' = Append(dlLog, "exists_raise")
              /\ dlPc' = "except"
              /\ UNCHANGED dlRet
         ELSE IF dlDisk.dir
         THEN /\ dlLog' = Append(dlLog, "exists_true")
              /\ dlRet' = "True"
              /\ dlPc' = "main"
         ELSE /\ dlLog' = Append(dlLog, "exists_false")
              /\ dlPc' = "download"
              /\ UNCHANGED dlRet
    /\ UNCHANGED <<dlDisk, dlExit, dlRuns, appVars, genVars>>

\* lines 33-36: manager.download_model is called; it raises or returns a path,
\* and leaves on disk what it managed to write
DlDownload ==
    /\ dlPc = "download"
    /\ \E raises \in BOOLEAN, d \in [dir : BOOLEAN, file : BOOLEAN] :
         /\ d.file => d.dir
         /\ dlDisk' = d
         /\ IF raises
            THEN dlLog' = Append(dlLog, "download") \o <<"download_raise">>
                 /\ dlPc' = "except"
            ELSE dlLog' = Append(dlLog, "download") \o <<"download_returned">>
                 /\ dlPc' = "verify"
    /\ UNCHANGED <<dlRet, dlExit, dlRuns, appVars, genVars>>

\* lines 38-47: the returned path is verified
DlVerify ==
    /\ dlPc = "verify"
    /\ IF download_verified(dlDisk.file)
       THEN /\ dlLog' = Append(dlLog, IF dlDisk.file THEN "path_exists" ELSE "path_missing")
            /\ dlRet' = "True"
            /\ dlPc' = "main"
       ELSE /\ dlLog' = Append(dlLog, "path_missing")
            /\ dlPc' = "except"
            /\ UNCHANGED dlRet
    /\ UNCHANGED <<dlDisk, dlExit, dlRuns, appVars, genVars>>

\* lines 49-55: the handler of any Exception
DlExcept ==
    /\ dlPc = "except"
    /\ dlLog' = Append(dlLog, "download_failed")
    /\ dlRet' = "False"
    /\ dlPc' = "main"
    /\ UNCHANGED <<dlDisk, dlExit, dlRuns, appVars, genVars>>

\* lines 62-67: the script ends
DlMain ==
    /\ dlPc = "main"
    /\ dlExit' = exit_status(dlRet)
    /\ dlPc' = "idle"
    /\ UNCHANGED <<dlDisk, dlLog, dlRet, dlRuns, appVars, genVars>>

NextDL == DlStart \/ DlManager \/ DlModelExists \/ DlDownload \/ DlVerify \/ DlExcept \/ DlMain

SpecDL == InitDL /\ [][NextDL]_vars

----------------------------------------------------------------------------

Init == AppIdle /\ outputWav \in BOOLEAN /\ GenIdle /\ DlIdle

Next ==
    \/ \E s \in Sessions :
         \/ PageStart(s)
         \/ Widgets(s)
         \/ GenerationGuard(s)
         \/ LazyLoad(s)
         \/ ProcessAudio(s)
         \/ Generate(s)
         \/ ShowResult(s)
         \/ CleanupAfterSuccess(s)
         \/ GenerationError(s)
         \/ ResourceMonitor(s)
    \/ Tick

Spec == Init /\ [][Next]_vars

----------------------------------------------------------------------------
(* Properties *)

ev == run.events

\* every occurrence of b in the log has an a before it
Before(log, a, b) ==
    \A j \in DOMAIN log : log[j] = b => \E i \in 1..(j - 1) : log[i] = a

\* e, if it occurs, is the last event of the log
Last(log, e) == \A i \in DOMAIN log : log[i] = e => i = Len(log)

SynthCalled == run.call # None

RunEnded == pc = "idle" /\ run.ended # "running"

\* C1: synthesis happens only in a run where Generate was pressed with a voice
\* file and a non-empty text, after the session holds a loaded model and
\* process_audio returned non-empty bytes in the same run, on that model and
\* those bytes; playback and download are offered only after synthesis
\* returned, and both get the bytes synthesis returned.
C1_PipelineOrder ==
    /\ SynthCalled =>
         /\ run.button /\ run.voice_file # None /\ run.text_input.len > 0
         /\ session_state[cur].tts # None
         /\ run.call.model = session_state[cur].tts
         /\ run.audio_data # None /\ run.audio_data.nbytes > 0
         /\ run.call.speaker_wav = run.audio_data
         /\ Has(ev, "audio_ok")
    /\ Before(ev, "audio_ok", "synth_ok") /\ Before(ev, "audio_ok", "synth_raise")
    /\ \A i, j \in DOMAIN ev :
         /\ (ev[i] \in {"load_ok", "load_raise"}
               /\ ev[j] \in {"audio_ok", "audio_error", "synth_ok", "synth_raise"}) => i < j
         /\ (ev[i] \in {"audio_ok", "audio_error"}
               /\ ev[j] \in {"synth_ok", "synth_raise"}) => i < j
    /\ Before(ev, "synth_ok", "st_audio") /\ Before(ev, "synth_ok", "download_button")
    /\ (run.played # None \/ run.download # None) =>
         /\ Has(ev, "synth_ok")
         /\ run.output_data # None
         /\ run.played = run.output_data
         /\ run.download = run.output_data

C1_Witness ==
    /\ Has(ev, "load_ok") /\ Has(ev, "audio_ok") /\ Has(ev, "synth_ok")
    /\ Has(ev, "st_audio") /\ Has(ev, "download_button")
    /\ run.played # None /\ run.played = run.download

\* C2: the guard reports stop above 7372.8 MB, a warning above 6144 MB and up
\* to 7372.8 MB, nothing at or below 6144 MB; a run is stopped exactly by a
\* guard call that saw more than 7372.8 MB, and nothing of the run follows it.
C2_MemoryGuard ==
    /\ run.guard # None =>
         run.guard.level =
           IF run.guard.rss * 10 > 73728 * 1024 THEN "stop"
           ELSE IF run.guard.rss > 6144 * 1024 THEN "warning"
           ELSE "quiet"
    /\ Last(ev, "guard_stop")
    /\ Has(ev, "guard_stop") <=> run.ended = "stopped"
    /\ run.ended = "stopped" =>
         /\ pc = "idle"
         /\ run.audio = None /\ run.call = None /\ run.output_data = None
         /\ ~Has(ev, "load_ok") /\ ~Has(ev, "load_raise")
    /\ (ev # <<>> /\ ev[Len(ev)] \in {"guard_warning", "guard_quiet"}) =>
         /\ run.ended = "running"
         /\ pc # "idle"

C2_Witness ==
    /\ ev = <<"guard_warning", "guard_stop">>
    /\ run.guard.rss = 7549748
    /\ run.ended = "stopped"

\* C3: an upload of more than 50 * 1024 * 1024 bytes gets an error and None
\* without being decoded, one of exactly that size passes the size check, and
\* after any None the run ends with no synthesis, playback or download.
C3_UploadLimit ==
    /\ run.audio # None =>
         /\ run.voice_file.size > 52428800 =>
              /\ run.audio.ret = None /\ ~run.audio.decoded
              /\ Has(ev, "audio_error")
         /\ run.voice_file.size = 52428800 => run.audio.decoded
         /\ run.audio.ret = None <=> Has(ev, "audio_error")
         /\ run.audio.error \in {"none", "AttributeError", "ValueError", "DecodeError"}
    /\ Last(ev, "audio_error")
    /\ Has(ev, "audio_error") =>
         /\ RunEnded /\ run.ended = "returned"
         /\ run.call = None /\ run.output_data = None
         /\ run.played = None /\ run.download = None

C3_Witness ==
    /\ run.voice_file # None /\ run.voice_file.size = 52428801
    /\ Has(ev, "audio_error") /\ RunEnded

\* C4: the model receives the first min(len, 3000) characters of the text:
\* never more than 3000, and a text of at most 3000 characters unchanged.
C4_TextPrefix ==
    genPc = "called" =>
      /\ genCall.text.seed = genText.seed
      /\ genCall.text.off = genText.off
      /\ genCall.text.len = Min(genText.len, 3000)
      /\ genCall.text.len <= 3000
      /\ genText.len <= 3000 => genCall.text = genText
      /\ genCall.speaker_wav = genAudio

C4_Witness ==
    genPc = "called" /\ genText.len = 3001 /\ genCall.text.len = 3000

\* C5: the WAV returned for an accepted upload holds at most 60 * 22050 =
\* 1,323,000 samples and no more than the upload has; an upload longer than
\* 60 s is truncated, not rejected.
C5_AudioDuration ==
    /\ (run.audio # None /\ run.audio.ret # None) =>
         /\ run.audio.ret.samples <= 1323000
         /\ run.audio.ret.samples <=
              run.voice_file.lead + run.voice_file.voiced + run.voice_file.trail
         /\ run.audio.ret.rate = 22050
         /\ run.audio.ret.nbytes = 44 + 2 * run.audio.ret.samples
    /\ (run.audio # None /\ run.voice_file.ok /\ run.voice_file.size <= 52428800) =>
         run.audio.ret # None
    /\ SynthCalled => run.call.speaker_wav.samples <= 1323000

C5_Witness ==
    /\ SynthCalled
    /\ run.voice_file.lead + run.voice_file.voiced + run.voice_file.trail > 1323000
    /\ run.call.speaker_wav.samples = 1321000

\* C6: download_model returns True without downloading when the model
\* exists, else downloads once and returns True exactly when the download
\* returned and its path exists, and False when a step raised or the path is
\* missing; the script exits with status 1 exactly when it returned False.
C6_Downloader ==
    /\ dlRet \in {"unset", "True", "False"}
    /\ Count(dlLog, "download") <= 1
    /\ Has(dlLog, "exists_true") => ~Has(dlLog, "download")
    /\ Has(dlLog, "download") => Has(dlLog, "exists_false")
    /\ dlRet = "True" <=>
         \/ Has(dlLog, "exists_true")
         \/ (Has(dlLog, "download_returned") /\ Has(dlLog, "path_exists"))
    /\ dlRet = "False" <=> Has(dlLog, "download_failed")
    /\ Has(dlLog, "download_failed") <=>
         /\ dlPc # "except"
         /\ \/ Has(dlLog, "manager_raise") \/ Has(dlLog, "exists_raise")
            \/ Has(dlLog, "download_raise")
            \/ (Has(dlLog, "download_returned") /\ Has(dlLog, "path_missing"))
    /\ dlPc \in {"main", "idle"} /\ dlRuns > 0 => dlRet # "unset"
    /\ (dlRet = "True" /\ Has(dlLog, "download")) => dlDisk.file
    /\ dlExit \in {"unset", "0", "1"}
    /\ dlExit = "1" <=> (dlPc = "idle" /\ dlRet = "False")
    /\ dlExit = "0" <=> (dlPc = "idle" /\ dlRet = "True")

C6_Witness ==
    /\ dlPc = "idle" /\ dlExit = "1"
    /\ Has(dlLog, "download_returned") /\ Has(dlLog, "path_missing")

\* C7 as stated: main() requests load_model at most once in a session.
C7_Original == \A s \in Sessions : loadReq[s] <= 1

\* C7 amended: in a session at most one request of load_model returns a
\* model (requests are made only while the session holds none), every
\* synthesis of the session uses the model the session holds, whether or not
\* the cache entry has expired, and the body of load_model runs only when the
\* single cache entry is absent or at least 1800 s old.
C7_Memoized ==
    /\ \A s \in Sessions :
         /\ loadRet[s] <= 1
         /\ loadRet[s] = 1 <=> session_state[s].tts # None
         /\ synthModels[s] \subseteq {session_state[s].tts}
         /\ session_state[s].tts # None =>
              \E i \in DOMAIN bodyLog :
                 bodyLog[i].ok /\ session_state[s].tts = ModelObject(i)
    /\ \A i \in DOMAIN bodyLog :
         \/ bodyLog[i].entry.model = None
         \/ bodyLog[i].at >= bodyLog[i].entry.at + 1800
    /\ cache.model # None =>
         \E i \in DOMAIN bodyLog :
            bodyLog[i].ok /\ cache = [model |-> ModelObject(i), at |-> bodyLog[i].at]

C7_Witness ==
    /\ loadReq[cur] = 2 /\ loadRet[cur] = 1
    /\ synthModels[cur] = {session_state[cur].tts}
    /\ now >= cache.at + 1800
    /\ pc = "show"

\* C8 as stated: a generation attempt the guard did not stop ends with
\* memory_cleanup followed by the resource monitor.
C8_CleanupAlways ==
    (RunEnded /\ run.button /\ run.voice_file # None /\ run.text_input.len > 0
       /\ run.ended # "stopped") =>
      /\ Has(ev, "cleanup")
      /\ Before(ev, "cleanup", "monitor")
      /\ Has(ev, "monitor")

\* C9: an exception of load_model or of the synthesis is reported as a
\* Generation Error and does not leave main(); nothing is offered in that
\* run; a failed load leaves the session without a model; memory_cleanup
\* raises nothing, also when output.wav cannot be removed.
C9_GenerationError ==
    /\ run.ended # "raised"
    /\ ~Has(ev, "cleanup_raise")
    /\ \A i \in DOMAIN ev :
         ev[i] \in {"load_raise", "synth_raise"} =>
           /\ i < Len(ev) => ev[i + 1] = "generation_error"
           /\ i = Len(ev) => pc = "except"
    /\ (Has(ev, "load_raise") \/ Has(ev, "synth_raise")) =>
         /\ ~Has(ev, "st_audio") /\ ~Has(ev, "download_button")
         /\ run.played = None /\ run.download = None
         /\ RunEnded => (run.ended = "completed" /\ Has(ev, "cleanup"))
    /\ Has(ev, "load_raise") => session_state[cur].tts = None

C9_Witness ==
    /\ Has(ev, "load_raise") /\ Has(ev, "generation_error")
    /\ RunEnded /\ run.ended = "completed"
    /\ outputWav

====
